---- MODULE Spec2Model ----
(***************************************************************************)
(* The LPD8806 LED strip driver (LPD8806.py): the pixel buffer, the gamma  *)
(* and channel-order encoding, the container protocol, the fill and set    *)
(* helpers, and the byte stream update() writes to the SPI device.         *)
(*                                                                         *)
(* The source is run by Python 3 (the constructor's self[0:] reaches       *)
(* __setitem__ as slice(0, None, None), which is what line 181 tests for). *)
(*                                                                         *)
(* Numbers.  A Python number x is held as the integer x * Den, so that the *)
(* brightness products of the source (r * bright, val * masterBrightness)  *)
(* and the truncation int(...) are computed exactly.  The inputs are       *)
(* multiples of 1/Den, for which the source's float arithmetic is exact.   *)
(***************************************************************************)
EXTENDS Integers, Sequences, FiniteSets, TLC

\* ------------------------------------------------------------- bounds ----
\* Strip lengths of the buffer specification are 1..MaxLeds.
MaxLeds == 2
\* update() is called at most MaxUpdates times (the sink only grows).
MaxUpdates == 2
\* The interleaved animations advance their cursors MaxSteps times in all.
MaxSteps == 3

\* Fixed-point unit: the number x is held as x * Den.
Den == 2

\* ----------------------------------------------------------- helpers ----
\* Python's None, for an optional integer argument: <<>> is None, <<n>> is n.
None == <<>>
Some(n) == <<n>>

\* int(x) of a float x = a / b (b > 0): truncation toward zero.
PyInt(a, b) == IF a >= 0 THEN a \div b ELSE -((-a) \div b)

\* n zero bytes: bytearray(b'\x00' * n).
Zeros(n) == [i \in 1..n |-> 0]

\* [v] * n, a Python list repetition (empty when n <= 0).
Repeat(v, n) == [i \in 1..n |-> v]

\* ------------------------------------------------------ ChannelOrder ----
\* Entry c is the byte of the record that logical channel c (R, G, B) goes to.
RGB == <<0, 1, 2>>
GRB == <<1, 0, 2>>

\* Mutant of BRG: entry p names the channel held at byte p.
BRGGather == <<2, 0, 1>>

BRG == <<1, 2, 0>>

\* --------------------------------------------------------- the gamma ----
\* self.gamma[i] = 0x80 | int(pow(float(i) / 255.0, 2.5) * 127.0 + 0.5),
\* i = 0..255: the table the constructor's loop builds, entry i at i + 1.
GammaTable ==
  << 128, 128, 128, 128, 128, 128, 128, 128, 128, 128, 128, 128, 128, 128, 128, 128,
     128, 128, 128, 128, 128, 128, 128, 128, 128, 128, 128, 128, 129, 129, 129, 129,
     129, 129, 129, 129, 129, 129, 129, 129, 129, 129, 129, 129, 130, 130, 130, 130,
     130, 130, 130, 130, 130, 131, 131, 131, 131, 131, 131, 131, 131, 132, 132, 132,
     132, 132, 132, 132, 133, 133, 133, 133, 133, 134, 134, 134, 134, 134, 135, 135,
     135, 135, 135, 136, 136, 136, 136, 137, 137, 137, 137, 138, 138, 138, 138, 139,
     139, 139, 140, 140, 140, 141, 141, 141, 141, 142, 142, 142, 143, 143, 144, 144,
     144, 145, 145, 145, 146, 146, 146, 147, 147, 148, 148, 149, 149, 149, 150, 150,
     151, 151, 152, 152, 152, 153, 153, 154, 154, 155, 155, 156, 156, 157, 157, 158,
     158, 159, 160, 160, 161, 161, 162, 162, 163, 163, 164, 165, 165, 166, 166, 167,
     168, 168, 169, 169, 170, 171, 171, 172, 173, 173, 174, 175, 175, 176, 177, 178,
     178, 179, 180, 180, 181, 182, 183, 183, 184, 185, 186, 186, 187, 188, 189, 190,
     190, 191, 192, 193, 194, 195, 195, 196, 197, 198, 199, 200, 201, 202, 202, 203,
     204, 205, 206, 207, 208, 209, 210, 211, 212, 213, 214, 215, 216, 217, 218, 219,
     220, 221, 222, 223, 224, 225, 226, 227, 228, 229, 230, 232, 233, 234, 235, 236,
     237, 238, 239, 241, 242, 243, 244, 245, 246, 248, 249, 250, 251, 253, 254, 255 >>

\* Mutant of gamma: the 0x80 marker bit is not set.
GammaNoMarker(i) == GammaTable[i + 1] - 128

\* self.gamma[i], for an index the bytearray accepts as it is (0 <= i < 256).
gamma(i) == GammaTable[i + 1]

\* Python sequence indexing: seq[i] is defined for -n <= i < n, a negative i
\* counting from the end.
PyIndexOk(i, n) == -n <= i /\ i < n
PyIndex(i, n) == IF i < 0 THEN i + n ELSE i

\* ------------------------------------------------------------ colors ----
\* A value handed to the strip: a Color object (kind "Color", rgb its R, G, B)
\* or a plain sequence (kind "tuple", rgb its items, of any length).
Tuple(items) == [kind |-> "tuple", rgb |-> items]

\* A tuple of whole numbers, as the caller writes it: (r, g, b).
T3(r, g, b) == Tuple(<<r * Den, g * Den, b * Den>>)

\* Color(r, g, b, bright), arguments in units of 1/Den: the ValueError of a
\* channel outside [0, 255] or a brightness outside [0, 1], else the object
\* holding r * bright, g * bright, b * bright.
Color(r, g, b, bright) ==
  IF r > 255 * Den \/ r < 0 \/ g > 255 * Den \/ g < 0 \/ b > 255 * Den \/ b < 0
    THEN [err |-> "ValueError", val |-> Tuple(<<>>)]
  ELSE IF bright > Den \/ bright < 0
    THEN [err |-> "ValueError", val |-> Tuple(<<>>)]
  ELSE [err |-> "none",
        val |-> [kind |-> "Color",
                 rgb  |-> <<(r * bright) \div Den, (g * bright) \div Den,
                            (b * bright) \div Den>>]]

\* Color.getRGB(): the 3-tuple (R, G, B).
getRGB(color) == color.rgb

\* colorsys.hsv_to_rgb(h, s, v) as ColorHSV calls it, with h = H / 360 for a
\* hue of H = hn / hd degrees: i = int(h * 6.0) is the sextant floor(H / 60)
\* and f = h * 6.0 - i the position in it, here the integer fs in units of
\* 1 / (60 * hd).  s and v are in units of 1/Den; the channels come out, not
\* rounded, in units of 1 / HsvUnit(hd).
HsvUnit(hd) == 60 * hd * Den * Den

hsv_to_rgb(hn, hd, s, v) ==
  LET i  == (hn \div (60 * hd)) % 6
      fs == hn % (60 * hd)
      w  == 60 * hd
      vv == v * w * Den
      p  == v * w * (Den - s)
      q  == v * (w * Den - s * fs)
      t  == v * (w * Den - s * (w - fs))
  IN  IF s = 0 THEN <<vv, vv, vv>>
      ELSE IF i = 0 THEN <<vv, t, p>>
      ELSE IF i = 1 THEN <<q, vv, p>>
      ELSE IF i = 2 THEN <<p, vv, t>>
      ELSE IF i = 3 THEN <<p, q, vv>>
      ELSE IF i = 4 THEN <<t, p, vv>>
      ELSE <<vv, p, q>>

\* ColorHSV(h, s, v) (lines 74-84), h = hn / hd degrees, s and v in units of
\* 1/Den.  The object is a Color (ColorHSV subclasses it) whose getRGB() is
\* overridden (lines 91-93) to return hsv_to_rgb(H / 360, S, V): channels in
\* [0, 1], not scaled to [0, 255].  rgb holds them in units of 1/Den, rounded
\* down, which int(val * masterBrightness) cannot tell from the channel itself.
ColorHSV(hn, hd, s, v) ==
  IF hn > 360 * hd \/ hn < 0 \/ s > Den \/ s < 0 \/ v > Den \/ v < 0
    THEN [err |-> "ValueError", val |-> Tuple(<<>>)]
  ELSE [err |-> "none",
        val |-> [kind |-> "Color",
                 rgb  |-> [c \in 1..3 |->
                             (hsv_to_rgb(hn, hd, s, v)[c] * Den)
                               \div HsvUnit(hd)],
                 hsv  |-> <<hn, hd, s, v>>]]

\* ColorHSV.getColorRGB() (lines 86-89): Color(r * 255, g * 255, b * 255).
getColorRGB(c) ==
  LET t == hsv_to_rgb(c.hsv[1], c.hsv[2], c.hsv[3], c.hsv[4])
      u == HsvUnit(c.hsv[2])
  IN  Color((t[1] * 255 * Den) \div u, (t[2] * 255 * Den) \div u,
            (t[3] * 255 * Den) \div u, Den)

\* ------------------------------------------------------- __setitem__ ----
\* The result of an operation on the buffer: the buffer it leaves and the
\* exception it raises ("none" when it returns).
Res(buf, err) == [buf |-> buf, err |-> err]

\* Mutant of WriteChannel: the master brightness is not applied.
WriteChannelNoBright(buf, key, dest, val, bright) ==
  LET g == PyInt(val, Den)
  IN  IF ~PyIndexOk(g, 256) THEN Res(buf, "IndexError")
      ELSE IF ~PyIndexOk(key, Len(buf)) THEN Res(buf, "IndexError")
      ELSE Res([buf EXCEPT ![PyIndex(key, Len(buf)) + 1][dest + 1] =
                  gamma(PyIndex(g, 256))], "none")

\* One turn of the loop of line 201-202:
\*   self.buffer[key][dest] = self.gamma[int(val * self.masterBrightness)]
\* The right-hand side is evaluated first (IndexError when the bytearray has
\* no such entry), then self.buffer[key] (IndexError), then the byte is stored.
WriteChannel(buf, key, dest, val, bright) ==
  LET g == PyInt(val * bright, Den * Den)
  IN  IF ~PyIndexOk(g, 256) THEN Res(buf, "IndexError")
      ELSE IF ~PyIndexOk(key, Len(buf)) THEN Res(buf, "IndexError")
      ELSE Res([buf EXCEPT ![PyIndex(key, Len(buf)) + 1][dest + 1] =
                  gamma(PyIndex(g, 256))], "none")

\* for dest, val in zip(self.c_order, value): ..., from the c-th pair on; the
\* writes already made stay when a later one raises.
RECURSIVE WriteChannels(_, _, _, _, _, _)
WriteChannels(buf, key, order, value, bright, c) ==
  IF c > Len(order) \/ c > Len(value) THEN Res(buf, "none")
  ELSE LET r == WriteChannel(buf, key, order[c], value[c], bright)
       IN  IF r.err # "none" THEN r
           ELSE WriteChannels(r.buf, key, order, value, bright, c + 1)

\* __setitem__(key, value) for an integer key (lines 196-202).
SetPixel(buf, key, value, order, bright) ==
  LET v == IF value.kind = "Color" THEN getRGB(value) ELSE value.rgb
  IN  IF Len(v) # 3 THEN Res(buf, "ValueError")
      ELSE WriteChannels(buf, key, order, v, bright, 1)

\* The while loop of the slice branch (lines 186-193): value.pop(0) raises
\* IndexError on an empty list; the pixels already written stay written.
RECURSIVE SliceLoop(_, _, _, _, _, _, _)
SliceLoop(buf, i, stop, step, values, order, bright) ==
  IF ~(i < stop) THEN Res(buf, "none")
  ELSE IF values = <<>> THEN Res(buf, "IndexError")
  ELSE LET v0 == Head(values)
           v  == IF v0.kind = "Color" THEN Tuple(getRGB(v0)) ELSE v0
       IN  IF Len(v.rgb) # 3 THEN Res(buf, "ValueError")
           ELSE LET r == SetPixel(buf, i, v, order, bright)
                IN  IF r.err # "none" THEN r
                    ELSE SliceLoop(r.buf, i + step, stop, step, Tail(values),
                                   order, bright)

\* __setitem__(slice(start, stop, step), values) (lines 177-194); n is
\* self.num_leds.  "not stop" holds of None and of 0, as does "not step".
SetSlice(buf, n, start, stop, step, values, order, bright) ==
  SliceLoop(buf, start,
            IF stop = None \/ stop = Some(0) THEN n ELSE stop[1],
            IF step = None \/ step = Some(0) THEN 1 ELSE step[1],
            values, order, bright)

\* ------------------------------------------------ fill and the latch ----
\* fill(color, start, end) (lines 216-219): end defaults to num_leds, and the
\* slice assignment self[start:end] = [color] * (end - start).
fill(buf, n, color, start, end, order, bright) ==
  LET e == IF end = None THEN n ELSE end[1]
  IN  SetSlice(buf, n, start, Some(e), None, Repeat(color, e - start),
               order, bright)

\* fillOff(start, end) (lines 239-240): fill(Color(0, 0, 0), start, end).
fillOff(buf, n, start, end, order, bright) ==
  fill(buf, n, Color(0, 0, 0, Den).val, start, end, order, bright)

\* Mutant of LatchBytes: one byte too many at a multiple of 32.
LatchBytesOver(n) == PyInt(n + 32, 32)

\* self.latch_bytes = int((num_leds + 31) / 32) (line 110).
LatchBytes(n) == PyInt(n + 31, 32)

\* The bytes of the records of buf, in buffer order: what the loop of
\* update() hands to spi.write entry by entry.
Flat(buf) == [i \in 1..(3 * Len(buf)) |-> buf[((i - 1) \div 3) + 1][((i - 1) % 3) + 1]]

\* _latch() (lines 149-151): latch_bytes zero bytes, then the flush.
Latch(s, lb) == s \o Zeros(lb)

\* update() (lines 155-158): every entry of the buffer, then the latch.
UpdateSink(s, buf, lb) == Latch(s \o Flat(buf), lb)

\* ------------------------------------------------------------- state ----
VARIABLES
  num_leds,          \* self.num_leds
  latch_bytes,       \* self.latch_bytes
  c_order,           \* self.c_order
  masterBrightness,  \* self.masterBrightness, in units of 1/Den
  buffer,            \* self.buffer: the sequence of 3-byte records
  sink,              \* every byte written to self.spi so far
  rainbowStep,       \* the animation cursors
  rainbowCycleStep,
  wipeStep,
  chaseStep,
  larsonStep,
  larsonDir,
  larsonLast,
  waveStep,
  updates,           \* history: the buffer as it stood at each update() call
  last               \* history: the last call, its arguments, its exception,
                     \* and the buffer, the sink length and the cursors before it

vars == <<num_leds, latch_bytes, c_order, masterBrightness, buffer, sink,
          rainbowStep, rainbowCycleStep, wipeStep, chaseStep, larsonStep,
          larsonDir, larsonLast, waveStep, updates, last>>

cursors == <<rainbowStep, rainbowCycleStep, wipeStep, chaseStep, larsonStep,
             larsonDir, larsonLast, waveStep>>

config == <<num_leds, latch_bytes, c_order, masterBrightness>>

NoValue == Tuple(<<>>)

\* The record of a call.
Call(op, key, stop, value, vals, err) ==
  [op |-> op, key |-> key, stop |-> stop, value |-> value, vals |-> vals,
   err |-> err, pre |-> buffer, sinkLen |-> Len(sink), cur |-> cursors]

\* LEDStrip(n) (lines 101-137): the state the constructor leaves.
Constructed(n) ==
  /\ c_order = GRB
  /\ num_leds = n
  /\ latch_bytes = LatchBytes(n)
  /\ masterBrightness = Den
  /\ rainbowStep = 0
  /\ rainbowCycleStep = 0
  /\ wipeStep = 0
  /\ chaseStep = 0
  /\ larsonStep = 0
  /\ larsonDir = -1
  /\ larsonLast = 0
  /\ waveStep = 0
  /\ sink = Latch(<<>>, LatchBytes(n))
  /\ buffer = SetSlice(Repeat(<<0, 0, 0>>, n), n, 0, None, None,
                       Repeat(T3(0, 0, 0), n), GRB, Den).buf
  /\ updates = <<>>
  /\ last = [op |-> "init", key |-> 0, stop |-> None, value |-> NoValue,
             vals |-> <<>>, err |-> "none", pre |-> <<>>, sinkLen |-> 0,
             cur |-> <<0, 0, 0, 0, 0, -1, 0, 0>>]

\* ------------------------------------------------------------ inputs ----
\* A color as the caller writes it: a literal tuple, or a Color(...) whose
\* construction may raise before the strip is called.
Lit(v) == [err |-> "none", val |-> v]

\* Color objects and what set() is handed in their place.
ColorInputs ==
  { Color(10 * Den, 20 * Den, 30 * Den, Den),  \* Color(10, 20, 30)
    Color(300 * Den, 0, 0, Den),               \* Color(300, 0, 0): ValueError
    Lit(Tuple(<<Den, 2 * Den>>)) }             \* (1, 2): two components

\* Raw (r, g, b) arguments.
TupleInputs ==
  { T3(255, 0, 0),
    T3(-1, 0, 0),                              \* a channel below 0
    T3(0, 600, 0) }                            \* a channel above 255

\* Master brightness 0.5, 1 and the invalid 1.5.
BrightInputs == {1, Den, Den + 1}

OrderInputs == {RGB, GRB, BRG}

\* Pixel indexes: every index of the strip, the one past its end, and -1 and
\* -(N + 1) on the side of Python's negative indexing.
PixelInputs == (0..num_leds) \cup {-1, 0 - num_leds - 1}

\* Range ends: None (the default) or a number up to one past the strip.
EndInputs == {None} \cup {Some(e) : e \in 0..(num_leds + 1)}

\* ----------------------------------------------------------- actions ----
\* The buffer-only calls leave the sink, the cursors and the configuration.
Wrote(r, call) ==
  /\ buffer' = r.buf
  /\ last' = call
  /\ UNCHANGED <<config, sink, cursors, updates>>

\* A call whose argument expression raised before the strip was entered.
Raised(call) ==
  /\ last' = call
  /\ UNCHANGED <<config, buffer, sink, cursors, updates>>

\* set(pixel, color) (lines 243-244): self[pixel] = color.
Set(pixel, c) ==
  IF c.err # "none" THEN Raised(Call("set", pixel, None, c.val, <<>>, c.err))
  ELSE LET r == SetPixel(buffer, pixel, c.val, c_order, masterBrightness)
       IN  Wrote(r, Call("set", pixel, None, c.val, <<>>, r.err))

\* setRGB(pixel, r, g, b) (lines 247-248): self[pixel] = (r, g, b).
SetRGB(pixel, t) ==
  LET r == SetPixel(buffer, pixel, t, c_order, masterBrightness)
  IN  Wrote(r, Call("setRGB", pixel, None, t, <<>>, r.err))

\* setOff(pixel) (lines 260-261): self[pixel] = (0, 0, 0).
SetOff(pixel) ==
  LET r == SetPixel(buffer, pixel, T3(0, 0, 0), c_order, masterBrightness)
  IN  Wrote(r, Call("setOff", pixel, None, T3(0, 0, 0), <<>>, r.err))

\* strip[start:stop] = values: the range assignment (lines 177-194).
SetRange(start, stop, values) ==
  LET r == SetSlice(buffer, num_leds, start, stop, None, values, c_order,
                    masterBrightness)
  IN  Wrote(r, Call("setRange", start, stop, NoValue, values, r.err))

\* fill(color, start, end) (lines 216-219).
Fill(c, start, end) ==
  IF c.err # "none" THEN Raised(Call("fill", start, end, c.val, <<>>, c.err))
  ELSE LET r == fill(buffer, num_leds, c.val, start, end, c_order,
                     masterBrightness)
       IN  Wrote(r, Call("fill", start, end, c.val, <<>>, r.err))

\* fillRGB(r, g, b, start, end) (lines 223-227).
FillRGB(t, start, end) ==
  LET e == IF end = None THEN num_leds ELSE end[1]
      r == SetSlice(buffer, num_leds, start, Some(e), None,
                    Repeat(Tuple(t.rgb), e - start), c_order, masterBrightness)
  IN  Wrote(r, Call("fillRGB", start, end, t, <<>>, r.err))

\* fillOff(start, end) (lines 239-240).
FillOff(start, end) ==
  LET r == fillOff(buffer, num_leds, start, end, c_order, masterBrightness)
  IN  Wrote(r, Call("fillOff", start, end, T3(0, 0, 0), <<>>, r.err))

\* setHSV(pixel, h, s, v) (lines 251-252): self[pixel] = ColorHSV(h, s, v).
SetHSV(pixel, h, s, v) ==
  LET c == ColorHSV(h, 1, s, v)
  IN  IF c.err # "none"
        THEN Raised(Call("setHSV", pixel, None, c.val, <<h, s, v>>, c.err))
      ELSE LET r == SetPixel(buffer, pixel, c.val, c_order, masterBrightness)
           IN  Wrote(r, Call("setHSV", pixel, None, c.val, <<h, s, v>>, r.err))

\* setHue(pixel, hue) (lines 256-257): self[pixel] = ColorHSV(hue).
SetHue(pixel, hue) ==
  LET c == ColorHSV(hue, 1, Den, Den)
  IN  IF c.err # "none"
        THEN Raised(Call("setHue", pixel, None, c.val, <<hue>>, c.err))
      ELSE LET r == SetPixel(buffer, pixel, c.val, c_order, masterBrightness)
           IN  Wrote(r, Call("setHue", pixel, None, c.val, <<hue>>, r.err))

\* fillHSV(h, s, v, start, end) (lines 230-231): fill(ColorHSV(h, s, v), ...).
FillHSV(h, s, v, start, end) ==
  LET c == ColorHSV(h, 1, s, v)
  IN  IF c.err # "none"
        THEN Raised(Call("fillHSV", start, end, c.val, <<h, s, v>>, c.err))
      ELSE LET r == fill(buffer, num_leds, c.val, start, end, c_order,
                         masterBrightness)
           IN  Wrote(r, Call("fillHSV", start, end, c.val, <<h, s, v>>, r.err))

\* fillHue(hue, start, end) (lines 236-237): fill(ColorHSV(hue), ...).
FillHue(hue, start, end) ==
  LET c == ColorHSV(hue, 1, Den, Den)
  IN  IF c.err # "none"
        THEN Raised(Call("fillHue", start, end, c.val, <<hue>>, c.err))
      ELSE LET r == fill(buffer, num_leds, c.val, start, end, c_order,
                         masterBrightness)
           IN  Wrote(r, Call("fillHue", start, end, c.val, <<hue>>, r.err))

\* setChannelOrder(order) (lines 140-141).
SetChannelOrder(order) ==
  /\ c_order' = order
  /\ last' = Call("setChannelOrder", 0, None, NoValue, order, "none")
  /\ UNCHANGED <<num_leds, latch_bytes, masterBrightness, buffer, sink,
                 cursors, updates>>

\* setMasterBrightness(bright) (lines 144-147).
SetMasterBrightness(bright) ==
  LET bad == bright > Den \/ bright < 0
  IN  /\ masterBrightness' = IF bad THEN masterBrightness ELSE bright
      /\ last' = Call("setMasterBrightness", bright, None, NoValue, <<>>,
                      IF bad THEN "ValueError" ELSE "none")
      /\ UNCHANGED <<num_leds, latch_bytes, c_order, buffer, sink, cursors,
                     updates>>

\* del strip[key] (lines 205-206): del self.buffer[key].
DelItem(key) ==
  LET n  == Len(buffer)
      ok == PyIndexOk(key, n)
      k  == PyIndex(key, n) + 1
      r  == IF ok
              THEN Res(SubSeq(buffer, 1, k - 1) \o SubSeq(buffer, k + 1, n), "none")
              ELSE Res(buffer, "IndexError")
  IN  Wrote(r, Call("delitem", key, None, NoValue, <<>>, r.err))

\* update() (lines 155-158).
Update ==
  /\ Len(updates) < MaxUpdates
  /\ sink' = UpdateSink(sink, buffer, latch_bytes)
  /\ updates' = Append(updates, buffer)
  /\ last' = Call("update", 0, None, NoValue, <<>>, "none")
  /\ UNCHANGED <<config, buffer, cursors>>

\* all_off() (lines 264-268): fillOff, update, fillOff, update; a fillOff
\* that raises ends the call there.
AllOff ==
  /\ Len(updates) + 2 <= MaxUpdates
  /\ LET r1 == fillOff(buffer, num_leds, 0, None, c_order, masterBrightness)
         s1 == UpdateSink(sink, r1.buf, latch_bytes)
         r2 == fillOff(r1.buf, num_leds, 0, None, c_order, masterBrightness)
         s2 == UpdateSink(s1, r2.buf, latch_bytes)
     IN  IF r1.err # "none"
           THEN /\ buffer' = r1.buf
                /\ last' = Call("all_off", 0, None, NoValue, <<>>, r1.err)
                /\ UNCHANGED <<sink, updates>>
         ELSE IF r2.err # "none"
           THEN /\ buffer' = r2.buf
                /\ sink' = s1
                /\ updates' = Append(updates, r1.buf)
                /\ last' = Call("all_off", 0, None, NoValue, <<>>, r2.err)
         ELSE /\ buffer' = r2.buf
              /\ sink' = s2
              /\ updates' = updates \o <<r1.buf, r2.buf>>
              /\ last' = Call("all_off", 0, None, NoValue, <<>>, "none")
  /\ UNCHANGED <<config, cursors>>

\* -------------------------------------------------------- animations ----
\* end as every animation normalises it (lines 295-296, 326-327, 340-341).
AnimEnd(n, end) == IF end = 0 \/ end > n THEN n ELSE end

\* The result of an animation step: the buffer, the exception, the cursor.
Step(r, cur) == [buf |-> r.buf, err |-> r.err, cur |-> cur]

\* Mutant of anim_color_wipe: the cursor wraps one step late.
anim_color_wipe_late(buf, n, step, color, start, end, order, bright) ==
  LET e  == AnimEnd(n, end)
      r1 == IF step = 0 THEN fillOff(buf, n, 0, None, order, bright)
            ELSE Res(buf, "none")
      r2 == SetPixel(r1.buf, start + step, color, order, bright)
  IN  IF r1.err # "none" THEN Step(r1, step)
      ELSE IF r2.err # "none" THEN Step(r2, step)
      ELSE Step(r2, IF start + step + 1 > e THEN 0 ELSE step + 1)

\* Mutant of anim_color_wipe: the strip is cleared at every step.
anim_color_wipe_clearing(buf, n, step, color, start, end, order, bright) ==
  LET e  == AnimEnd(n, end)
      r1 == fillOff(buf, n, 0, None, order, bright)
      r2 == SetPixel(r1.buf, start + step, color, order, bright)
  IN  IF r1.err # "none" THEN Step(r1, step)
      ELSE IF r2.err # "none" THEN Step(r2, step)
      ELSE Step(r2, IF start + step + 1 >= e THEN 0 ELSE step + 1)

\* anim_color_wipe(color, start, end) (lines 325-336).
anim_color_wipe(buf, n, step, color, start, end, order, bright) ==
  LET e  == AnimEnd(n, end)
      r1 == IF step = 0 THEN fillOff(buf, n, 0, None, order, bright)
            ELSE Res(buf, "none")
      r2 == SetPixel(r1.buf, start + step, color, order, bright)
  IN  IF r1.err # "none" THEN Step(r1, step)
      ELSE IF r2.err # "none" THEN Step(r2, step)
      ELSE Step(r2, IF start + step + 1 >= e THEN 0 ELSE step + 1)

\* anim_color_chase(color, start, end) (lines 339-352).
anim_color_chase(buf, n, step, color, start, end, order, bright) ==
  LET e  == AnimEnd(n, end)
      r1 == SetPixel(buf, IF step = 0 THEN e - 1 ELSE start + step,
                     T3(0, 0, 0), order, bright)
      r2 == SetPixel(r1.buf, start + step, color, order, bright)
  IN  IF r1.err # "none" THEN Step(r1, step)
      ELSE IF r2.err # "none" THEN Step(r2, step)
      ELSE Step(r2, IF start + step + 1 >= e THEN 0 ELSE step + 1)

\* wheel_color(wheelpos) (lines 271-291) for wheelpos = w / d (d > 0): the
\* position is clamped to [0, 384], the three 128-wide bands give the channels
\* (127 - wheelpos % 128 is 127 - (wheelpos % 128)), and Color(r, g, b) checks
\* them.  A channel x / d is handed to Color as floor(x * Den / d), which is
\* below 0 exactly when x is.
wheel_color(w, d) ==
  LET wp == IF w < 0 THEN 0 ELSE IF w > 384 * d THEN 384 * d ELSE w
      up == wp % (128 * d)
      dn == 127 * d - up
      q(x) == (x * Den) \div d
  IN  IF wp < 128 * d THEN Color(q(dn), q(up), 0, Den)
      ELSE IF wp < 256 * d THEN Color(0, q(dn), q(up), Den)
      ELSE Color(q(up), 0, q(dn), Den)

\* The loop of anim_rainbow (lines 299-303) from i on: pixel start + i gets
\* wheel_color((i + rainbowStep) % 384).
RECURSIVE RainbowLoop(_, _, _, _, _, _, _)
RainbowLoop(buf, i, size, step, start, order, bright) ==
  IF i >= size THEN Res(buf, "none")
  ELSE LET c == wheel_color((i + step) % 384, 1)
       IN  IF c.err # "none" THEN Res(buf, c.err)
           ELSE LET r == SetPixel(buf, start + i, c.val, order, bright)
                IN  IF r.err # "none" THEN r
                    ELSE RainbowLoop(r.buf, i + 1, size, step, start, order,
                                     bright)

\* anim_rainbow(start, end) (lines 294-307): the cursor goes up by one and
\* back to 0 once it is above 384.
anim_rainbow(buf, n, step, start, end, order, bright) ==
  LET e == AnimEnd(n, end)
      r == RainbowLoop(buf, 0, e - start, step, start, order, bright)
  IN  IF r.err # "none" THEN Step(r, step)
      ELSE Step(r, IF step + 1 > 384 THEN 0 ELSE step + 1)

\* The loop of anim_rainbow_cycle (lines 315-318) from i on: pixel start + i
\* gets wheel_color((i * (384 / size) + rainbowCycleStep) % 384), a float, held
\* here in units of 1/size.
RECURSIVE RainbowCycleLoop(_, _, _, _, _, _, _)
RainbowCycleLoop(buf, i, size, step, start, order, bright) ==
  IF i >= size THEN Res(buf, "none")
  ELSE LET c == wheel_color((i * 384 + step * size) % (384 * size), size)
       IN  IF c.err # "none" THEN Res(buf, c.err)
           ELSE LET r == SetPixel(buf, start + i, c.val, order, bright)
                IN  IF r.err # "none" THEN r
                    ELSE RainbowCycleLoop(r.buf, i + 1, size, step, start,
                                          order, bright)

\* anim_rainbow_cycle(start, end) (lines 310-322).
anim_rainbow_cycle(buf, n, step, start, end, order, bright) ==
  LET e == AnimEnd(n, end)
      r == RainbowCycleLoop(buf, 0, e - start, step, start, order, bright)
  IN  IF r.err # "none" THEN Step(r, step)
      ELSE Step(r, IF step + 1 > 384 THEN 0 ELSE step + 1)

\* The tail of the larson scanner as lines 360-362 leave it: tail + 1, or the
\* float size / 2 - 1 when tail + 1 >= size / 2.  h is the tail in halves and
\* f tells a float from an int (range() accepts only the int).
LarsonTail(tail, size) ==
  IF 2 * (tail + 1) >= size THEN [h |-> size - 2, f |-> TRUE]
  ELSE [h |-> 2 * (tail + 1), f |-> FALSE]

\* A channel of the faded color: x * level for
\* level = (float(tail - k) / float(tail)) * fade (lines 375, 382), the tail
\* th in halves and the fade fn / fd; x and the result in units of 1/Den, the
\* result rounded toward zero as int() will round it.
Faded(x, th, k, fn, fd) ==
  IF th > 0 THEN PyInt(x * (th - 2 * k) * fn, th * fd)
  ELSE PyInt(0 - x * (th - 2 * k) * fn, (0 - th) * fd)

\* The two loops of lines 374-376 and 381-383 from k on: pixel at + sgn * k
\* gets the color faded by the level of k.  A float bound makes range() raise
\* TypeError, a tail of 0 makes the level raise ZeroDivisionError.
RECURSIVE LarsonLoop(_, _, _, _, _, _, _, _, _, _, _)
LarsonLoop(buf, k, bound, at, sgn, color, th, fn, fd, order, bright) ==
  IF bound.f THEN Res(buf, "TypeError")
  ELSE IF 2 * k >= bound.h THEN Res(buf, "none")
  ELSE IF th = 0 THEN Res(buf, "ZeroDivisionError")
  ELSE LET v == Tuple([c \in 1..3 |-> Faded(color.rgb[c], th, k, fn, fd)])
           r == SetPixel(buf, at + sgn * k, v, order, bright)
       IN  IF r.err # "none" THEN r
           ELSE LarsonLoop(r.buf, k + 1, bound, at, sgn, color, th, fn, fd,
                           order, bright)

\* anim_larson_scanner(color, tail, fade, start, end) (lines 355-394), fade
\* being fn / fd.  cur is <<larsonStep, larsonDir, larsonLast>>: larsonLast is
\* assigned before the first write, the other two after the last one.
anim_larson_scanner(buf, n, step, dir, lastAt, color, tail, fn, fd, start, end, order, bright) ==
  LET e    == AnimEnd(n, end)
      T    == LarsonTail(tail, e - start)
      at   == start + step
      tl   == IF 2 * at + T.h >= 2 * e
                THEN [h |-> 2 * (e - at), f |-> FALSE] ELSE T
      tr   == IF 2 * at - T.h < 2 * start
                THEN [h |-> 2 * (at - start), f |-> FALSE] ELSE T
      r0   == SetPixel(buf, at, color, order, bright)
      r1   == LarsonLoop(r0.buf, 0, tl, at, 1, color, T.h, fn, fd, order,
                         bright)
      r2   == IF at + (tl.h \div 2) <= e
                THEN SetPixel(r1.buf, at + (tl.h \div 2), T3(0, 0, 0), order,
                              bright)
                ELSE Res(r1.buf, "none")
      r3   == LarsonLoop(r2.buf, 0, tr, at, -1, color, T.h, fn, fd, order,
                         bright)
      r4   == IF at - (tr.h \div 2) >= start
                THEN SetPixel(r3.buf, at - (tr.h \div 2) - 1, T3(0, 0, 0),
                              order, bright)
                ELSE Res(r3.buf, "none")
      d    == IF start + step = e \/ step = 0 THEN 0 - dir ELSE dir
      stop(r) == Step(r, <<step, dir, at>>)
  IN  IF r0.err # "none" THEN stop(r0)
      ELSE IF r1.err # "none" THEN stop(r1)
      ELSE IF r2.err # "none" THEN stop(r2)
      ELSE IF r3.err # "none" THEN stop(r3)
      ELSE IF r4.err # "none" THEN stop(r4)
      ELSE Step(r4, <<step + d, d, at>>)

\* anim_larson_rainbow(tail, fade, start, end) (lines 397-404): the scanner
\* with the color of hue larsonStep * (360 / size).
anim_larson_rainbow(buf, n, step, dir, lastAt, tail, fn, fd, start, end, order, bright) ==
  LET e    == AnimEnd(n, end)
      size == e - start
      hsv  == IF size > 0 THEN ColorHSV(step * 360, size, Den, Den)
              ELSE ColorHSV(0 - step * 360, 0 - size, Den, Den)
      c    == getColorRGB(hsv.val)
      keep(err) == [buf |-> buf, err |-> err, cur |-> <<step, dir, lastAt>>]
  IN  IF size = 0 THEN keep("ZeroDivisionError")
      ELSE IF hsv.err # "none" THEN keep(hsv.err)
      ELSE IF c.err # "none" THEN keep(c.err)
      ELSE anim_larson_scanner(buf, n, step, dir, lastAt, c.val, tail, fn, fd,
                               start, end, order, bright)

\* math.sin(self.PI * float(cycles) * float(k) / float(size)) (line 416) for
\* cycles = 4, k = waveStep * i in 0..49 and the range sizes 7 and 8 of
\* the animation specifications: floor(sin(...) * WaveUnit) with the source's
\* PI = 3.14159265, whose sines at the multiples of PI are not 0 but a few
\* 1e-9 to either side (floor keeps their sign).
WaveUnit == 1000000

WaveSin7 ==
  <<0, 974927, -433884, -781832, 781831, 433883, -974928, -1,
     974927, -433884, -781832, 781831, 433883, -974928, -1, 974927,
     -433884, -781832, 781831, 433883, -974928, -1, 974927, -433884,
     -781832, 781831, 433883, -974928, -1, 974927, -433884, -781832,
     781831, 433883, -974928, -1, 974927, -433884, -781832, 781831,
     433883, -974928, -1, 974927, -433884, -781832, 781831, 433883,
     -974928, -1 >>

WaveSin8 ==
  <<0, 1000000, 0, -1000000, -1, 1000000, 0, -1000000,
     -1, 999999, 0, -1000000, -1, 999999, 0, -1000000,
     -1, 999999, 0, -1000000, -1, 999999, 0, -1000000,
     -1, 999999, 0, -1000000, -1, 999999, 0, -1000000,
     -1, 999999, 0, -1000000, -1, 999999, 0, -1000000,
     -1, 999999, 0, -1000000, -1, 999999, 0, -1000000,
     -1, 999999 >>

WaveSin(k, size) ==
  CASE size = 7 -> WaveSin7[k + 1]
    [] size = 8 -> WaveSin8[k + 1]

\* One channel of the wave color (lines 417-424) for the sine y / WaveUnit and
\* the channel x in units of 1/Den: toward white, 255 - (255 - x) * (1 - y),
\* on a peak and toward black, x * (1 + y), in a trough.
WaveChannel(x, y) ==
  IF y >= 0
    THEN (255 * Den * WaveUnit - (255 * Den - x) * (WaveUnit - y)) \div WaveUnit
    ELSE (x * (WaveUnit + y)) \div WaveUnit

\* The loop of anim_wave (lines 415-425) from i on.
RECURSIVE WaveLoop(_, _, _, _, _, _, _, _)
WaveLoop(buf, i, size, step, color, start, order, bright) ==
  IF i >= size THEN Res(buf, "none")
  ELSE LET y == WaveSin(step * i, size)
           c == Color(WaveChannel(color.rgb[1], y), WaveChannel(color.rgb[2], y),
                      WaveChannel(color.rgb[3], y), Den)
       IN  IF c.err # "none" THEN Res(buf, c.err)
           ELSE LET r == SetPixel(buf, start + i, c.val, order, bright)
                IN  IF r.err # "none" THEN r
                    ELSE WaveLoop(r.buf, i + 1, size, step, color, start,
                                  order, bright)

\* anim_wave(color, cycles, start, end) (lines 408-426) for cycles = 4: the
\* cursor goes up by one and never wraps.
anim_wave(buf, n, step, color, start, end, order, bright) ==
  LET e == AnimEnd(n, end)
      r == WaveLoop(buf, 0, e - start, step, color, start, order, bright)
  IN  IF r.err # "none" THEN Step(r, step) ELSE Step(r, step + 1)

AnimWave(c, start, end) ==
  /\ LET r == anim_wave(buffer, num_leds, waveStep, c, start, end, c_order,
                        masterBrightness)
     IN  /\ buffer' = r.buf
         /\ waveStep' = r.cur
         /\ last' = Call("anim_wave", start, Some(end), c, <<4>>, r.err)
  /\ UNCHANGED <<config, sink, updates, rainbowStep, rainbowCycleStep,
                 wipeStep, chaseStep, larsonStep, larsonDir, larsonLast>>

AnimLarsonScanner(c, tail, fn, fd, start, end) ==
  /\ LET r == anim_larson_scanner(buffer, num_leds, larsonStep, larsonDir,
                                  larsonLast, c, tail, fn, fd, start, end,
                                  c_order, masterBrightness)
     IN  /\ buffer' = r.buf
         /\ larsonStep' = r.cur[1]
         /\ larsonDir' = r.cur[2]
         /\ larsonLast' = r.cur[3]
         /\ last' = Call("anim_larson_scanner", start, Some(end), c,
                         <<tail, fn, fd>>, r.err)
  /\ UNCHANGED <<config, sink, updates, rainbowStep, rainbowCycleStep,
                 wipeStep, chaseStep, waveStep>>

AnimLarsonRainbow(tail, fn, fd, start, end) ==
  /\ LET r == anim_larson_rainbow(buffer, num_leds, larsonStep, larsonDir,
                                  larsonLast, tail, fn, fd, start, end,
                                  c_order, masterBrightness)
     IN  /\ buffer' = r.buf
         /\ larsonStep' = r.cur[1]
         /\ larsonDir' = r.cur[2]
         /\ larsonLast' = r.cur[3]
         /\ last' = Call("anim_larson_rainbow", start, Some(end), NoValue,
                         <<tail, fn, fd>>, r.err)
  /\ UNCHANGED <<config, sink, updates, rainbowStep, rainbowCycleStep,
                 wipeStep, chaseStep, waveStep>>

AnimRainbow(start, end) ==
  /\ LET r == anim_rainbow(buffer, num_leds, rainbowStep, start, end,
                           c_order, masterBrightness)
     IN  /\ buffer' = r.buf
         /\ rainbowStep' = r.cur
         /\ last' = Call("anim_rainbow", start, Some(end), NoValue, <<>>, r.err)
  /\ UNCHANGED <<config, sink, updates, rainbowCycleStep, wipeStep,
                 chaseStep, larsonStep, larsonDir, larsonLast, waveStep>>

AnimRainbowCycle(start, end) ==
  /\ LET r == anim_rainbow_cycle(buffer, num_leds, rainbowCycleStep, start,
                                 end, c_order, masterBrightness)
     IN  /\ buffer' = r.buf
         /\ rainbowCycleStep' = r.cur
         /\ last' = Call("anim_rainbow_cycle", start, Some(end), NoValue, <<>>,
                         r.err)
  /\ UNCHANGED <<config, sink, updates, rainbowStep, wipeStep, chaseStep,
                 larsonStep, larsonDir, larsonLast, waveStep>>

AnimColorWipe(c, start, end) ==
  /\ LET r == anim_color_wipe(buffer, num_leds, wipeStep, c, start, end,
                              c_order, masterBrightness)
     IN  /\ buffer' = r.buf
         /\ wipeStep' = r.cur
         /\ last' = Call("anim_color_wipe", start, Some(end), c, <<>>, r.err)
  /\ UNCHANGED <<config, sink, updates, rainbowStep, rainbowCycleStep,
                 chaseStep, larsonStep, larsonDir, larsonLast, waveStep>>

AnimColorChase(c, start, end) ==
  /\ LET r == anim_color_chase(buffer, num_leds, chaseStep, c, start, end,
                               c_order, masterBrightness)
     IN  /\ buffer' = r.buf
         /\ chaseStep' = r.cur
         /\ last' = Call("anim_color_chase", start, Some(end), c, <<>>, r.err)
  /\ UNCHANGED <<config, sink, updates, rainbowStep, rainbowCycleStep,
                 wipeStep, larsonStep, larsonDir, larsonLast, waveStep>>

\* ---------------------------------------------------- specifications ----
\* The pixel buffer: every write of the container protocol and of the set and
\* fill helpers, the configuration calls and item deletion, on strips of
\* 1..MaxLeds pixels.
Init == \E n \in 1..MaxLeds : Constructed(n)

Next ==
  \/ \E p \in PixelInputs : Set(p, Color(10 * Den, 20 * Den, 30 * Den, Den))
  \/ \E c \in ColorInputs : Set(0, c)
  \/ \E p \in PixelInputs : SetRGB(p, T3(255, 0, 0))
  \/ \E t \in TupleInputs : SetRGB(0, t)
  \/ \E p \in {0, -1, num_leds} : SetOff(p)
  \/ \E k \in {0, num_leds} :
       SetRange(1, Some(num_leds), Repeat(T3(255, 0, 0), k))
  \/ \E e \in EndInputs : Fill(Color(10 * Den, 20 * Den, 30 * Den, Den), 0, e)
  \/ \E e \in EndInputs : Fill(Lit(T3(255, 0, 0)), 1, e)
  \/ \E e \in {None} : FillRGB(T3(0, 600, 0), 0, e)
  \/ \E e \in {None, Some(1)} : FillOff(0, e)
  \/ \E o \in OrderInputs : SetChannelOrder(o)
  \/ \E b \in BrightInputs : SetMasterBrightness(b)
  \/ \E k \in {-1, num_leds} : DelItem(k)

Spec == Init /\ [][Next]_vars

\* The single-pixel calls alone, with the configuration calls and deletion:
\* they reach every buffer and configuration that Next reaches, since the
\* range calls write their pixels through the same __setitem__.
NextSet ==
  \/ \E p \in PixelInputs : Set(p, Color(10 * Den, 20 * Den, 30 * Den, Den))
  \/ \E c \in ColorInputs : Set(0, c)
  \/ \E p \in PixelInputs : SetRGB(p, T3(255, 0, 0))
  \/ \E t \in TupleInputs : SetRGB(0, t)
  \/ \E p \in {0, -1, num_leds} : SetOff(p)
  \/ \E o \in OrderInputs : SetChannelOrder(o)
  \/ \E b \in BrightInputs : SetMasterBrightness(b)
  \/ \E k \in {-1, num_leds} : DelItem(k)

SpecSet == Init /\ [][NextSet]_vars

\* The wire: what reaches the sink.  Strips of the lengths at which the latch
\* count changes, written by whole-strip fills, writes of pixel 0, one-pixel
\* animation steps and the configuration calls, and sent by update() and
\* all_off().
WireLeds == {1, 4, 32, 33}

Red == Color(255 * Den, 0, 0, Den).val

InitWire == \E n \in WireLeds : Constructed(n)

NextWire ==
  \/ Update
  \/ AllOff
  \/ \E e \in {None} : Fill(Lit(Red), 0, e)
  \/ \E p \in {0, num_leds} : SetRGB(p, T3(255, 0, 0))
  \/ \E t \in {T3(-1, 0, 0)} : SetRGB(0, t)
  \/ \E b \in {Den, Den + 1} : SetMasterBrightness(b)
  \/ \E e \in {1} : AnimColorWipe(Red, 0, e)
  \/ \E e \in {1} : AnimColorChase(Red, 0, e)

SpecWire == InitWire /\ [][NextWire]_vars

\* all_off() from any state: strips of 1..MaxLeds pixels, written, configured
\* and shortened by item deletion, then turned off.
NextOff ==
  \/ AllOff
  \/ \E p \in {0, -1} : SetRGB(p, T3(255, 0, 0))
  \/ \E o \in OrderInputs : SetChannelOrder(o)
  \/ \E b \in {1, Den} : SetMasterBrightness(b)
  \/ \E k \in {0} : DelItem(k)

SpecOff == Init /\ [][NextOff]_vars

\* The HSV helpers beside set() of the converted color, under every channel
\* order and master brightness.
HueInputs == {0, 120, 240}

NextHSV ==
  \/ \E h \in HueInputs \cup {400}, v \in {1, Den} : SetHSV(0, h, Den, v)
  \/ \E h \in HueInputs : SetHue(num_leds - 1, h)
  \/ \E h \in {240} : FillHSV(h, Den, Den, 0, None)
  \/ \E h \in {0} : FillHue(h, 0, None)
  \/ \E h \in HueInputs : Set(0, getColorRGB(ColorHSV(h, 1, Den, Den).val))
  \/ \E o \in OrderInputs : SetChannelOrder(o)
  \/ \E b \in {1, Den} : SetMasterBrightness(b)

SpecHSV == Init /\ [][NextHSV]_vars

\* Interleaved animations: every animation step, over the whole strip and over
\* the sub-range [1, 8) of an 8-pixel strip, in any order, until the cursors
\* have advanced MaxSteps times in all.
MixLeds == {8}

MixRanges == {<<0, 0>>, <<1, 8>>}

Steps ==
  rainbowStep + rainbowCycleStep + wipeStep + chaseStep + larsonStep + waveStep

InitMix == \E n \in MixLeds : Constructed(n)

NextMix ==
  \/ \E g \in MixRanges : Steps < MaxSteps /\ AnimRainbow(g[1], g[2])
  \/ \E g \in MixRanges : Steps < MaxSteps /\ AnimRainbowCycle(g[1], g[2])
  \/ \E g \in MixRanges : Steps < MaxSteps /\ AnimColorWipe(Red, g[1], g[2])
  \/ \E g \in MixRanges : Steps < MaxSteps /\ AnimColorChase(Red, g[1], g[2])
  \/ \E g \in MixRanges :
       Steps < MaxSteps /\ AnimLarsonScanner(Red, 2, 3, 4, g[1], g[2])
  \/ \E g \in MixRanges :
       Steps < MaxSteps /\ AnimLarsonRainbow(2, 1, 2, g[1], g[2])
  \/ \E g \in MixRanges : Steps < MaxSteps /\ AnimWave(Red, g[1], g[2])

SpecMix == InitMix /\ [][NextMix]_vars

\* Runs: one animation called again and again with the same arguments from
\* the constructed strip, as the loops of example.py call it, over the whole
\* strip and over two sub-ranges.
RunLeds == {8, 10, 32}

RunRanges == {<<0, 0>>, <<1, num_leds - 1>>, <<0, num_leds - 1>>}

\* The call continues the run: the strip is new, or the last call was the
\* same animation with the same arguments.
Run(op, g, value) ==
  \/ last.op = "init"
  \/ /\ last.op = op
     /\ last.key = g[1]
     /\ last.stop = Some(g[2])
     /\ last.value = value

InitRuns == \E n \in RunLeds : Constructed(n)

NextRuns ==
  \/ \E g \in RunRanges :
       Run("anim_rainbow", g, NoValue) /\ AnimRainbow(g[1], g[2])
  \/ \E g \in RunRanges :
       Run("anim_rainbow_cycle", g, NoValue) /\ AnimRainbowCycle(g[1], g[2])
  \/ \E g \in RunRanges :
       Run("anim_color_wipe", g, Red) /\ AnimColorWipe(Red, g[1], g[2])
  \/ \E g \in RunRanges :
       Run("anim_color_chase", g, Red) /\ AnimColorChase(Red, g[1], g[2])
  \/ \E g \in RunRanges :
       Run("anim_larson_scanner", g, Red)
         /\ AnimLarsonScanner(Red, 2, 3, 4, g[1], g[2])
  \/ \E g \in RunRanges :
       Run("anim_larson_rainbow", g, NoValue)
         /\ AnimLarsonRainbow(2, 1, 2, g[1], g[2])

SpecRuns == InitRuns /\ [][NextRuns]_vars

\* ------------------------------------------------------------ claims ----
\* The calls that write pixel records.
SetOps == {"set", "setRGB", "setOff"}
WriteOps == SetOps \cup {"setRange", "fill", "fillRGB", "fillOff"}

\* ceil(n / d).
CeilDiv(n, d) == IF n % d = 0 THEN n \div d ELSE (n \div d) + 1

\* The device byte of a channel value v (in units of 1/Den) under master
\* brightness b: gamma[floor(v * b)].
Enc(v, b) == GammaTable[((v * b) \div (Den * Den)) + 1]

\* A 3-component value whose channels all lie in [0, 255].
ValidColor(v) ==
  /\ Len(v.rgb) = 3
  /\ \A c \in 1..3 : v.rgb[c] >= 0 /\ v.rgb[c] <= 255 * Den

\* The record a valid color is stored as under the current configuration.
Stored(v) ==
  [p \in 1..3 |->
     Enc(v.rgb[CHOOSE c \in 1..3 : c_order[c] = p - 1], masterBrightness)]

OffRecord == <<128, 128, 128>>

\* One frame as the wire format gives it: the records of buf byte by byte,
\* then ceil(n / 32) zero bytes.
WireFrame(buf, n) ==
  [i \in 1..(3 * Len(buf) + CeilDiv(n, 32)) |->
     IF i <= 3 * Len(buf)
       THEN buf[((i + 2) \div 3)][i - 3 * (((i + 2) \div 3) - 1)]
       ELSE 0]

RECURSIVE WireStream(_, _)
WireStream(us, n) ==
  IF us = <<>> THEN <<>>
  ELSE WireFrame(Head(us), n) \o WireStream(Tail(us), n)

\* TRUE at the positions of the sink that belong to a latch.
RECURSIVE LatchMask(_, _)
LatchMask(us, n) ==
  IF us = <<>> THEN <<>>
  ELSE [i \in 1..(3 * Len(Head(us)) + CeilDiv(n, 32)) |-> i > 3 * Len(Head(us))]
       \o LatchMask(Tail(us), n)

\* C1: the sink holds the constructor's latch, then one complete frame per
\* update() call made so far (every record of the buffer as it stood, in
\* index order, then exactly ceil(N/32) zero bytes), and nothing else; a
\* call other than update() and all_off() writes nothing to the sink.
C1_SinkIsLatchThenFrames ==
  /\ sink = Zeros(CeilDiv(num_leds, 32)) \o WireStream(updates, num_leds)
  /\ last.op \notin {"init", "update", "all_off"} => Len(sink) = last.sinkLen
  /\ last.op = "update" =>
       Len(sink) = last.sinkLen + 3 * Len(buffer) + CeilDiv(num_leds, 32)

\* Two different frames have been sent on a strip that needs two latch bytes.
C1_Witness ==
  /\ num_leds = 33
  /\ Len(updates) = 2
  /\ updates[1] # updates[2]
  /\ Len(sink) = 2 + 2 * (3 * 33 + 2)

\* C4: every byte of every pixel record has the 0x80 marker bit set, so in
\* the sink the zero bytes are exactly the bytes of the latches.
C4_MarkerBit ==
  /\ \A j \in 1..Len(buffer) : \A c \in 1..3 :
       buffer[j][c] >= 128 /\ buffer[j][c] <= 255
  /\ LET mask == [i \in 1..CeilDiv(num_leds, 32) |-> TRUE]
                 \o LatchMask(updates, num_leds)
     IN  /\ Len(sink) = Len(mask)
         /\ \A i \in 1..Len(sink) :
              IF mask[i] THEN sink[i] = 0
              ELSE sink[i] >= 128 /\ sink[i] <= 255

\* A frame holding a lit pixel has been sent.
C4_Witness ==
  /\ last.op = "update"
  /\ \E j \in 1..Len(buffer) : buffer[j] = <<128, 255, 128>>
  /\ \E i \in 1..Len(sink) : sink[i] = 255

\* C2: set(index, value) on an existing index with a 3-component color whose
\* channels lie in [0, 255] stores gamma[floor(value[c] * masterBrightness)]
\* at byte c_order[c] of that record, for each channel c, and leaves every
\* other record as it was.
C2_SetStoresGamma ==
  (/\ last.op \in {"set", "setRGB"}
   /\ last.key >= 0 /\ last.key < Len(last.pre)
   /\ ValidColor(last.value))
  => /\ last.err = "none"
     /\ Len(buffer) = Len(last.pre)
     /\ \A c \in 1..3 :
          buffer[last.key + 1][c_order[c] + 1] =
            GammaTable[((last.value.rgb[c] * masterBrightness) \div (Den * Den)) + 1]
     /\ \A j \in 1..Len(buffer) : j # last.key + 1 => buffer[j] = last.pre[j]

\* (255, 0, 0) has been written at half brightness to the last pixel of a
\* strip whose other pixel is lit.
C2_Witness ==
  /\ last.op = "setRGB"
  /\ last.err = "none"
  /\ last.value = T3(255, 0, 0)
  /\ masterBrightness = 1
  /\ c_order = RGB
  /\ Len(buffer) = 2
  /\ last.key = 1
  /\ buffer = <<<<128, 128, 129>>, <<150, 128, 128>>>>

\* The record Color(10, 20, 30) is stored as when the bytes 0, 1, 2 hold
\* the channels listed in chans.
AsBytes(chans) == [p \in 1..3 |-> Enc(chans[p] * Den, masterBrightness)]

C3_Case ==
  /\ last.op = "set"
  /\ last.err = "none"
  /\ last.value = Color(10 * Den, 20 * Den, 30 * Den, Den).val
  /\ c_order = BRG

\* C3 as stated: under BRG, Color(10, 20, 30) is stored as the bytes
\* [gamma(20*bright), gamma(30*bright), gamma(10*bright)].
C3_Original ==
  C3_Case => buffer[PyIndex(last.key, Len(buffer)) + 1] = AsBytes(<<20, 30, 10>>)

\* C3, amended: under BRG, Color(10, 20, 30) is stored as the bytes
\* [gamma(30*bright), gamma(10*bright), gamma(20*bright)]: blue, red, green.
C3_BRGStoresBlueRedGreen ==
  C3_Case => buffer[PyIndex(last.key, Len(buffer)) + 1] = AsBytes(<<30, 10, 20>>)

\* Color(10, 20, 30) has been written under BRG at full brightness.
C3_Witness ==
  /\ C3_Case
  /\ masterBrightness = Den
  /\ last.key = 0
  /\ buffer[1] = <<129, 128, 128>>

\* C5 as stated: a write that raises leaves every pixel record as it was.
C5_RejectedWriteLeavesBuffer ==
  (last.op \in WriteOps /\ last.err # "none") => buffer = last.pre

\* C6 as stated: a set on an index outside [0, N) raises IndexError and
\* writes no pixel.
C6_OutsideIndexRaises ==
  (/\ last.op \in SetOps
   /\ last.key < 0 \/ last.key >= Len(last.pre)
   /\ ValidColor(last.value))
  => last.err = "IndexError" /\ buffer = last.pre

\* C7 as stated: a write whose color has a channel outside [0, 255] raises.
C7_BadChannelRejected ==
  (/\ last.op \in {"set", "setRGB"}
   /\ Len(last.value.rgb) = 3
   /\ ~ValidColor(last.value))
  => last.err # "none"

\* C8 as stated: the number of pixel records is the N of the constructor.
C8_LengthFixed == Len(buffer) = num_leds

\* C9 as stated: all_off() returns, leaves every record off, appends two
\* identical all-off frames with their latches, and changes nothing when the
\* buffer was already off.
C9_AllOff ==
  last.op = "all_off" =>
    /\ last.err = "none"
    /\ buffer = Repeat(OffRecord, num_leds)
    /\ SubSeq(sink, last.sinkLen + 1, Len(sink)) =
         WireFrame(Repeat(OffRecord, num_leds), num_leds)
         \o WireFrame(Repeat(OffRecord, num_leds), num_leds)
    /\ (last.pre = Repeat(OffRecord, num_leds) => buffer = last.pre)

\* C10 as stated: fill(color, start, end) with 0 <= start <= end <= N and a
\* valid color returns, stores the color's record at every index of
\* [start, end) and leaves the others; by default it covers the strip.
C10_FillRange ==
  LET n == Len(last.pre)
      e == IF last.stop = None THEN n ELSE last.stop[1]
  IN  (/\ last.op = "fill"
       /\ ValidColor(last.value)
       /\ 0 <= last.key /\ last.key <= e /\ e <= n)
      => /\ last.err = "none"
         /\ Len(buffer) = n
         /\ \A j \in 1..n :
              buffer[j] = IF last.key < j /\ j <= e THEN Stored(last.value)
                          ELSE last.pre[j]

\* ------------------------------------------------------ HSV helpers ----
\* C11: setHSV and setHue store at the pixel, and fillHSV and fillHue store
\* over the range, exactly what set and fill store for the color that the
\* HSV-to-RGB conversion scaled to [0, 255] gives (getColorRGB).
C11_HSVDelegates ==
  /\ (/\ last.op \in {"setHSV", "setHue"}
      /\ last.err = "none"
      /\ last.key >= 0 /\ last.key < Len(last.pre))
     => buffer = SetPixel(last.pre, last.key, getColorRGB(last.value).val,
                          c_order, masterBrightness).buf
  /\ (last.op \in {"fillHSV", "fillHue"} /\ last.err = "none")
     => buffer = fill(last.pre, num_leds, getColorRGB(last.value).val,
                      last.key, last.stop, c_order, masterBrightness).buf

\* ------------------------------------------------------- animations ----
AnimOps ==
  {"anim_rainbow", "anim_rainbow_cycle", "anim_color_wipe", "anim_color_chase",
   "anim_larson_scanner", "anim_larson_rainbow", "anim_wave"}

LarsonOps == {"anim_larson_scanner", "anim_larson_rainbow"}

\* The places in cursors of the cursor an animation owns.
Own(op) ==
  CASE op = "anim_rainbow" -> {1}
    [] op = "anim_rainbow_cycle" -> {2}
    [] op = "anim_color_wipe" -> {3}
    [] op = "anim_color_chase" -> {4}
    [] op \in LarsonOps -> {5, 6, 7}
    [] op = "anim_wave" -> {8}

\* The range [AnimStart, AnimStop) of the last animation call, end = 0 being
\* the whole strip, and whether it is a range 0 <= start < end <= N.
AnimStart == last.key
AnimStop == IF last.stop[1] = 0 THEN num_leds ELSE last.stop[1]
AnimSize == AnimStop - AnimStart
AnimRangeOk == 0 <= AnimStart /\ AnimStart < AnimStop /\ AnimStop <= num_leds
InRange(j) == AnimStart <= j /\ j < AnimStop

\* C12: an animation call leaves the cursors of the other animations as they
\* were and moves its own by one step: up by one or back to 0 for rainbow,
\* rainbow-cycle, wipe and chase, up by one for wave, by one in either
\* direction for the larson scanner.
C12_OwnCursorOneStep ==
  last.op \in AnimOps =>
    /\ \A i \in (1..8) \ Own(last.op) : cursors[i] = last.cur[i]
    /\ last.op = "anim_rainbow" =>
         rainbowStep = last.cur[1] + 1 \/ (rainbowStep = 0 /\ last.cur[1] > 0)
    /\ last.op = "anim_rainbow_cycle" =>
         \/ rainbowCycleStep = last.cur[2] + 1
         \/ (rainbowCycleStep = 0 /\ last.cur[2] > 0)
    /\ last.op = "anim_color_wipe" =>
         wipeStep = last.cur[3] + 1 \/ wipeStep = 0
    /\ last.op = "anim_color_chase" =>
         chaseStep = last.cur[4] + 1 \/ chaseStep = 0
    /\ last.op \in LarsonOps =>
         /\ larsonStep - last.cur[5] \in {-1, 1}
         /\ larsonDir \in {-1, 1}
    /\ last.op = "anim_wave" => waveStep = last.cur[8] + 1

\* The part of C12 that does not depend on the call returning: the cursors of
\* the other animations are as they were.
OtherCursorsKept ==
  last.op \in AnimOps =>
    \A i \in (1..8) \ Own(last.op) : cursors[i] = last.cur[i]

\* C13: the rainbow cursor and the rainbow-cycle cursor lie in [0, 384) in
\* every reachable state.
C13_RainbowCursorBelow384 ==
  /\ rainbowStep >= 0 /\ rainbowStep < 384
  /\ rainbowCycleStep >= 0 /\ rainbowCycleStep < 384

\* C14: an animation step over a sub-range 0 <= start < end <= N leaves every
\* pixel record outside [start, end) as it was.
C14_OutsideRangeKept ==
  (last.op \in AnimOps /\ AnimRangeOk) =>
    /\ Len(buffer) = Len(last.pre)
    /\ \A j \in 0..(Len(buffer) - 1) :
         ~InRange(j) => buffer[j + 1] = last.pre[j + 1]

\* C15: in a run of color-wipe steps with fixed (start, end), the cursor is in
\* [0, size) before and after every call, the call writes the color to pixel
\* start + wipeStep, it clears the range exactly when it finds wipeStep = 0,
\* and the cursor goes round in exactly size calls.
C15_WipeRun ==
  /\ wipeStep >= 0
  /\ (last.op = "anim_color_wipe" /\ AnimRangeOk) =>
       LET pre == last.cur[3]
       IN  /\ last.err = "none"
           /\ pre >= 0 /\ pre < AnimSize
           /\ wipeStep < AnimSize
           /\ wipeStep = (pre + 1) % AnimSize
           /\ buffer[AnimStart + pre + 1] = Stored(last.value)
           /\ pre = 0 =>
                \A j \in 0..(num_leds - 1) :
                  (InRange(j) /\ j # AnimStart) => buffer[j + 1] = OffRecord
           /\ pre > 0 =>
                \A j \in 0..(num_leds - 1) :
                  j # AnimStart + pre => buffer[j + 1] = last.pre[j + 1]

\* The tenth step of a wipe over a strip of ten has just been made.
C15_Witness ==
  /\ last.op = "anim_color_wipe"
  /\ num_leds = 10
  /\ AnimStart = 0 /\ AnimStop = 10
  /\ last.cur[3] = 9
  /\ wipeStep = 0

\* The state C16 speaks of: ten consecutive wipe steps of a non-off color over
\* the whole of a strip of ten, the first made with wipeStep = 0.
C16_Case ==
  /\ last.op = "anim_color_wipe"
  /\ last.err = "none"
  /\ num_leds = 10
  /\ AnimStart = 0 /\ AnimStop = 10
  /\ last.cur[3] = 9
  /\ Stored(last.value) # OffRecord

\* C16 as stated: after the ten steps exactly the pixel at index 9 holds the
\* color.
C16_Original ==
  C16_Case =>
    \A j \in 0..9 : (buffer[j + 1] = Stored(last.value)) <=> (j = 9)

\* C16, amended: after the ten steps every pixel 0..9 holds the color, index 9
\* being the one written last, and the cursor is back at 0.
C16_WipeFillsStrip ==
  C16_Case =>
    /\ \A j \in 0..9 : buffer[j + 1] = Stored(last.value)
    /\ last.pre[10] = OffRecord
    /\ wipeStep = 0

C16_Witness ==
  /\ C16_Case
  /\ buffer = [j \in 1..10 |-> <<128, 255, 128>>]

\* C17: in a run of color-chase steps with a non-off color, after every call
\* exactly one pixel of [start, end) holds the color: the one just lit.
C17_ChaseOneLit ==
  (/\ last.op = "anim_color_chase"
   /\ AnimRangeOk
   /\ Stored(last.value) # OffRecord) =>
    /\ last.err = "none"
    /\ \A j \in 0..(num_leds - 1) :
         InRange(j) =>
           ((buffer[j + 1] = Stored(last.value)) <=> (j = AnimStart + last.cur[4]))

\* C18: in a run of larson-scanner steps with fixed (start, end) the cursor
\* satisfies 0 <= larsonStep <= size - 1 at every call, so that the head
\* start + larsonStep is inside [start, end), and larsonDir is -1 or +1.
C18_LarsonHeadInRange ==
  (last.op \in LarsonOps /\ AnimRangeOk) =>
    /\ last.cur[5] >= 0 /\ last.cur[5] <= AnimSize - 1
    /\ larsonStep >= 0 /\ larsonStep <= AnimSize - 1
    /\ larsonDir \in {-1, 1}

\* C19: after a larson-scanner step with color c, tail and fade, the head
\* pixel holds the encoding of c itself and every pixel of the range at
\* distance d in 1..tail from the head holds the encoding of c scaled by
\* fade * (tail - d) / tail.
C19_LarsonHeadFull ==
  (last.op = "anim_larson_scanner" /\ AnimRangeOk /\ last.err = "none") =>
    LET head == AnimStart + last.cur[5]
        tail == last.vals[1]
        fn   == last.vals[2]
        fd   == last.vals[3]
        lvl(d) == Tuple([c \in 1..3 |->
                    PyInt(last.value.rgb[c] * (tail - d) * fn, tail * fd)])
    IN  /\ buffer[head + 1] = Stored(last.value)
        /\ \A d \in 1..tail :
             /\ InRange(head + d) => buffer[head + d + 1] = Stored(lvl(d))
             /\ InRange(head - d) => buffer[head - d + 1] = Stored(lvl(d))

\* C20: an animation step over the default range or a range
\* 0 <= start < end <= N, in a run of one animation from the constructed
\* strip, returns without raising.
C20_AnimationsReturn ==
  (last.op \in AnimOps /\ AnimRangeOk) => last.err = "none"

====
